---- MODULE Spec2Model ----
(***************************************************************************)
(* Operational space controller of abr_control/controllers/osc.py.         *)
(*                                                                         *)
(* State: one OSC instance (its constructor arguments, integrated_error,   *)
(* training_signal) and the record of the last generate() call.            *)
(* Numbers are exact extended rationals [n, d]: d > 0 is the finite value  *)
(* n/d in lowest terms, d = 0 is +inf (n = 1), -inf (n = -1) or NaN        *)
(* (n = 0), combined as IEEE-754 / numpy combine them.  Floating-point     *)
(* rounding is not modelled.  Angles are counted in half turns (pi rad).   *)
(***************************************************************************)
EXTENDS Integers, Sequences, FiniteSets, TLC

(***************************************************************************)
(* Bounds of the model.                                                    *)
(***************************************************************************)
MaxJoints == 2      \* robots have 1..MaxJoints joints
MaxCalls  == 2      \* generate() calls per controller
MaxPos    == 2      \* target x and y coordinates range over 0..MaxPos

(***************************************************************************)
(* Extended rational arithmetic.                                           *)
(***************************************************************************)
Abs(i) == IF i < 0 THEN -i ELSE i
Sgn(i) == IF i < 0 THEN -1 ELSE IF i > 0 THEN 1 ELSE 0

RECURSIVE GCD(_, _)
GCD(a, b) == IF b = 0 THEN a ELSE GCD(b, a % b)

Norm(n, d) ==
    IF d = 0 THEN [n |-> Sgn(n), d |-> 0]
    ELSE LET g == GCD(Abs(n), Abs(d))
         IN  [n |-> (Sgn(d) * n) \div g, d |-> Abs(d) \div g]

R(i)    == [n |-> i, d |-> 1]
Zero    == R(0)
One     == R(1)
PosInf  == [n |-> 1, d |-> 0]
NaN     == [n |-> 0, d |-> 0]

IsNaN(a)    == a.d = 0 /\ a.n = 0
IsFinite(a) == a.d > 0

RNeg(a) == [n |-> -a.n, d |-> a.d]
RAbs(a) == [n |-> Abs(a.n), d |-> a.d]
RAdd(a, b) ==
    IF a.d = 0 /\ b.d = 0
    THEN (IF a.n = b.n THEN a ELSE NaN)
    ELSE Norm(a.n * b.d + b.n * a.d, a.d * b.d)
RSub(a, b) == RAdd(a, RNeg(b))
RMul(a, b) == Norm(a.n * b.n, a.d * b.d)
RDiv(a, b) ==
    Norm(a.n * b.d * (IF b.n < 0 THEN -1 ELSE 1), a.d * Abs(b.n))
\* a < b; every comparison with NaN is false
RLt(a, b) ==
    IF IsNaN(a) \/ IsNaN(b) THEN FALSE
    ELSE IF a.d = 0 /\ b.d = 0 THEN a.n < b.n
    ELSE IF a.d = 0 THEN a.n < 0
    ELSE IF b.d = 0 THEN b.n > 0
    ELSE a.n * b.d < b.n * a.d
RLe(a, b) == (~IsNaN(a)) /\ (~IsNaN(b)) /\ ~RLt(b, a)
\* np.sign
RSign(a) == IF IsNaN(a) THEN NaN ELSE R(Sgn(a.n))
\* np.maximum / np.minimum (NaN propagates)
RMax(a, b) == IF IsNaN(a) \/ IsNaN(b) THEN NaN ELSE IF RLt(a, b) THEN b ELSE a
RMin(a, b) == IF IsNaN(a) \/ IsNaN(b) THEN NaN ELSE IF RLt(b, a) THEN b ELSE a
\* np.clip(a, lo, hi)
RClip(a, lo, hi) == RMin(RMax(a, lo), hi)

(***************************************************************************)
(* Vectors are sequences of rationals, matrices are sequences of rows.     *)
(***************************************************************************)
\* the sequence s as an explicit tuple (a function [i \in 1..n |-> e] is
\* otherwise re-evaluated at every application)
Tup(s) == s \o <<>>

RECURSIVE RSum(_)
RSum(s) == IF s = <<>> THEN Zero ELSE RAdd(Head(s), RSum(Tail(s)))

RECURSIVE RProd(_)
RProd(s) == IF s = <<>> THEN One ELSE RMul(Head(s), RProd(Tail(s)))

VecOf(ints)    == Tup([i \in 1..Len(ints) |-> R(ints[i])])
ZeroVec(n)     == Tup([i \in 1..n |-> Zero])
VAdd(a, b)     == Tup([i \in 1..Len(a) |-> RAdd(a[i], b[i])])
VSub(a, b)     == Tup([i \in 1..Len(a) |-> RSub(a[i], b[i])])
VScale(c, a)   == Tup([i \in 1..Len(a) |-> RMul(c, a[i])])
Dot(a, b)      == RSum(Tup([i \in 1..Len(a) |-> RMul(a[i], b[i])]))
\* np.dot(A, v) for A with Len(A) rows
MatVec(A, v)   == Tup([i \in 1..Len(A) |-> Dot(A[i], v)])
\* A.T for A with ncols columns
Transpose(A, ncols) == Tup([j \in 1..ncols |-> Tup([i \in 1..Len(A) |-> A[i][j]])])
\* np.dot(A, B) for B with ncols columns
MatMul(A, B, ncols) ==
    Tup([i \in 1..Len(A) |-> Tup([j \in 1..ncols |->
        RSum(Tup([k \in 1..Len(B) |-> RMul(A[i][k], B[k][j])]))])])
MatSub(A, B)   == Tup([i \in 1..Len(A) |-> VSub(A[i], B[i])])
Eye(n)         == Tup([i \in 1..n |-> Tup([j \in 1..n |-> IF i = j THEN One ELSE Zero])])
\* A[mask] : the entries (rows) of A whose flag is set, in order
RECURSIVE SelectIdx(_, _)
SelectIdx(mask, i) ==
    IF i > Len(mask) THEN <<>>
    ELSE (IF mask[i] THEN <<i>> ELSE <<>>) \o SelectIdx(mask, i + 1)
ActiveIdx(mask) == SelectIdx(mask, 1)
Masked(A, mask) == Tup([i \in 1..Len(ActiveIdx(mask)) |-> A[ActiveIdx(mask)[i]]])

(***************************************************************************)
(* RobotModel (robot_config): a Cartesian arm whose joint k moves the task *)
(* dimension AxisOf[k] (1..3 = x, y, z; 4..6 = alpha, beta, gamma), with a *)
(* diagonal joint-space inertia matrix.                                    *)
(***************************************************************************)
AxisOf   == <<1, 4, 2, 3, 5, 6>>
JointMass == <<1, 300, 2, 3, 5, 7>>

\* robot_config.J(ref_frame, q, x): the full 6 x N Jacobian
RobotJ(N, q) ==
    Tup([d \in 1..6 |-> Tup([k \in 1..N |-> IF AxisOf[k] = d THEN One ELSE Zero])])
\* robot_config.M(q): N x N inertia matrix
RobotM(N, q) ==
    Tup([i \in 1..N |-> Tup([k \in 1..N |-> IF i = k THEN R(JointMass[k]) ELSE Zero])])
\* coordinate of the end effector along task dimension d
Coord(N, q, d) == RSum(Tup([k \in 1..N |-> IF AxisOf[k] = d THEN R(q[k]) ELSE Zero]))
\* robot_config.Tx(ref_frame, q, x): end-effector position
RobotTx(N, q) == Tup([d \in 1..3 |-> Coord(N, q, d)])
\* cos and sin of t quarter turns
CosQ(t) == R(<<1, 0, -1, 0>>[(t % 4) + 1])
SinQ(t) == R(<<0, 1, 0, -1>>[(t % 4) + 1])
\* half turns of the end effector about x, y, z
Turns(N, q, d) == Coord(N, q, d + 3).n
\* robot_config.R('EE', q): the rotation matrix Rx . Ry . Rz (diagonal for
\* rotations by whole half turns)
RobotR(N, q) ==
    LET cx == CosQ(2 * Turns(N, q, 1))
        cy == CosQ(2 * Turns(N, q, 2))
        cz == CosQ(2 * Turns(N, q, 3))
        diag == <<RMul(cy, cz), RMul(cx, cz), RMul(cx, cy)>>
    IN  Tup([i \in 1..3 |-> Tup([j \in 1..3 |-> IF i = j THEN diag[i] ELSE Zero])])
\* robot_config.C(q, dq): N x N Coriolis / centripetal matrix
RobotC(N, q, dq) ==
    Tup([i \in 1..N |-> Tup([k \in 1..N |-> IF i = k THEN R(dq[k]) ELSE Zero])])
\* robot_config.g(q): gravity torques
RobotG(N, q) == Tup([k \in 1..N |-> R(k + q[k])])

\* null_controller.generate(q, dq) of the secondary controller id
NullGenerate(id, N, q, dq) ==
    Tup([k \in 1..N |-> IF id = 1 THEN R(1 + q[k]) ELSE R(k - 3 * dq[k])])

(***************************************************************************)
(* abr_control.utils.transformations on quaternions (w, x, y, z).          *)
(***************************************************************************)
QuaternionMultiply(q1, q0) ==
    LET w1 == q1[1]  x1 == q1[2]  y1 == q1[3]  z1 == q1[4]
        w0 == q0[1]  x0 == q0[2]  y0 == q0[3]  z0 == q0[4]
        S4(a, b, c, e) == RSum(<<a, b, c, e>>)
    IN  << S4(RNeg(RMul(x1, x0)), RNeg(RMul(y1, y0)), RNeg(RMul(z1, z0)), RMul(w1, w0)),
           S4(RMul(x1, w0), RMul(y1, z0), RNeg(RMul(z1, y0)), RMul(w1, x0)),
           S4(RNeg(RMul(x1, z0)), RMul(y1, w0), RMul(z1, x0), RMul(w1, y0)),
           S4(RMul(x1, y0), RNeg(RMul(y1, x0)), RMul(z1, w0), RMul(w1, z0)) >>
QuaternionConjugate(q) == <<q[1], RNeg(q[2]), RNeg(q[3]), RNeg(q[4])>>
\* square root of a rational that is a perfect square
RSqrt(a) ==
    [n |-> CHOOSE r \in 0..a.n : r * r = a.n, d |-> CHOOSE r \in 1..a.d : r * r = a.d]
UnitVector(v) == Tup([i \in 1..Len(v) |-> RDiv(v[i], RSqrt(Dot(v, v)))])
\* quaternion_from_euler(ai, aj, ak, axes='rxyz'), angles in half turns:
\* the rotations about x, then the new y, then the new z
QuaternionFromEuler(ai, aj, ak) ==
    LET qx == <<CosQ(ai), SinQ(ai), Zero, Zero>>
        qy == <<CosQ(aj), Zero, SinQ(aj), Zero>>
        qz == <<CosQ(ak), Zero, Zero, SinQ(ak)>>
    IN  QuaternionMultiply(QuaternionMultiply(qx, qy), qz)
\* quaternion_from_matrix(Rm) for a diagonal rotation matrix: the squares of
\* the components come from the diagonal; the result has w >= 0, and when
\* w = 0 its overall sign sgn is the implementation's choice
QuaternionFromMatrix(Rm, sgn) ==
    LET a == Rm[1][1]  b == Rm[2][2]  c == Rm[3][3]
        Q4(x) == RSqrt(RDiv(x, R(4)))
        w == Q4(RSum(<<One, a, b, c>>))
        x == Q4(RSum(<<One, a, RNeg(b), RNeg(c)>>))
        y == Q4(RSum(<<One, RNeg(a), b, RNeg(c)>>))
        z == Q4(RSum(<<One, RNeg(a), RNeg(b), c>>))
    IN  IF w.n # 0 THEN <<w, x, y, z>>
        ELSE <<w, RMul(R(sgn), x), RMul(R(sgn), y), RMul(R(sgn), z)>>

(***************************************************************************)
(* numpy.linalg on the diagonal matrices the robots above produce.         *)
(***************************************************************************)
Diag(A)      == Tup([i \in 1..Len(A) |-> A[i][i]])
FromDiag(v)  ==
    Tup([i \in 1..Len(v) |-> Tup([j \in 1..Len(v) |-> IF i = j THEN v[i] ELSE Zero])])
LinalgDet(A) == RProd(Diag(A))
LinalgInv(A) == FromDiag(Tup([i \in 1..Len(A) |-> RDiv(One, A[i][i])]))
RECURSIVE VMax(_)
VMax(v) == IF Len(v) = 1 THEN v[1] ELSE RMax(v[1], VMax(Tail(v)))
\* np.linalg.pinv(A, rcond): singular values <= rcond * max are set to 0
LinalgPinv(A, rcond) ==
    LET sv     == Tup([i \in 1..Len(A) |-> RAbs(A[i][i])])
        cutoff == RMul(rcond, VMax(sv))
    IN  FromDiag(Tup([i \in 1..Len(A) |->
            IF RLt(cutoff, sv[i]) THEN RDiv(One, A[i][i]) ELSE Zero]))

(***************************************************************************)
(* OSC.__init__                                                            *)
(***************************************************************************)
NoValue     == [given |-> FALSE, val |-> Zero]
Given(x)    == [given |-> TRUE, val |-> x]
NoList      == [given |-> FALSE, val |-> <<>>]
GivenList(l) == [given |-> TRUE, val |-> l]

DetThreshold == Norm(1, 100000)     \* 1e-5
Rcond        == Norm(5, 1000)       \* .005

Count(mask) == Len(ActiveIdx(mask))
DefaultDof  == <<TRUE, TRUE, TRUE, FALSE, FALSE, FALSE>>

OSCInit(N, kp, ko, kv, ki, vmax, ctrlr_dof, null_controllers, use_g, use_C) ==
    LET ko1 == IF ko.given THEN ko.val ELSE kp
        kv1 == IF kv.given THEN kv.val ELSE RSqrt(RAdd(kp, ko1))
        dof == IF ctrlr_dof.given THEN ctrlr_dof.val ELSE DefaultDof
    IN  [ N_JOINTS |-> N, kp |-> kp, ko |-> ko1, kv |-> kv1, ki |-> ki,
          vmax |-> vmax, lamb |-> RDiv(kp, kv1),
          null_controllers |-> null_controllers,
          use_g |-> use_g, use_C |-> use_C,
          ctrlr_dof |-> dof, n_ctrlr_dof |-> Count(dof),
          warned |-> Count(dof) > N ]

ZerosThree == ZeroVec(3)
ZerosSix   == ZeroVec(6)

(***************************************************************************)
(* OSC.generate, stage by stage.                                           *)
(***************************************************************************)
\* (variant: the shape of target_vel is not asserted)
InputCheckTargetOnly(target, target_vel) ==
    IF Len(target) # 6 THEN "AssertionError" ELSE "ok"

\* the asserts on the argument shapes
InputCheck(target, target_vel) ==
    IF Len(target) # 6 THEN "AssertionError"
    ELSE IF target_vel.given /\ Len(target_vel.val) # 6 THEN "AssertionError"
    ELSE "ok"

\* task-space inertia matrix Mx from J (n x N) and M_inv
TaskInertia(J, M_inv, n, N) ==
    LET Mx_inv == MatMul(J, MatMul(M_inv, Transpose(J, N), n), n)
    IN  IF RLe(DetThreshold, RAbs(LinalgDet(Mx_inv)))
        THEN LinalgInv(Mx_inv)
        ELSE LinalgPinv(Mx_inv, Rcond)

\* u_task[:3] = xyz - target[:3]
PositionError(xyz, target) == Tup([i \in 1..3 |-> RSub(xyz[i], target[i])])

\* u_task[3:] = -ko / kp * q_r[1:] * sign(q_r[0])
OrientationError(osc, target, Rm, sgn) ==
    LET q_d == UnitVector(QuaternionFromEuler(target[4].n, target[5].n, target[6].n))
        q_e == UnitVector(QuaternionFromMatrix(Rm, sgn))
        q_r == QuaternionMultiply(q_d, QuaternionConjugate(q_e))
        c   == RDiv(RNeg(osc.ko), osc.kp)
    IN  Tup([i \in 1..3 |-> RMul(RMul(c, q_r[i + 1]), RSign(q_r[1]))])

\* the 6-vector u_task before the controlled dimensions are isolated
TaskError(osc, xyz, target, Rm, sgn) ==
    (IF Count(SubSeq(osc.ctrlr_dof, 1, 3)) > 0
     THEN PositionError(xyz, target) ELSE ZerosThree)
    \o
    (IF Count(SubSeq(osc.ctrlr_dof, 4, 6)) > 0
     THEN OrientationError(osc, target, Rm, sgn) ELSE ZerosThree)

\* np.argmin: the first index of the least entry (of the first NaN, if any)
RECURSIVE ArgMinFrom(_, _, _)
ArgMinFrom(v, i, best) ==
    IF i > Len(v) THEN best
    ELSE IF IsNaN(v[best]) THEN best
    ELSE IF IsNaN(v[i]) \/ RLt(v[i], v[best]) THEN ArgMinFrom(v, i + 1, i)
    ELSE ArgMinFrom(v, i + 1, best)
ArgMin(v) == ArgMinFrom(v, 2, 1)

\* sat = vmax / (lamb * |u_task|)
Saturation(osc, u_task) ==
    Tup([i \in 1..Len(u_task) |->
        RDiv(osc.vmax.val, RMul(osc.lamb, RAbs(u_task[i])))])

\* index = np.argmin(sat) if np.any(sat < 1), and 0 when nothing saturates
Binding(sat) ==
    IF \E i \in 1..Len(sat) : RLt(sat[i], One) THEN ArgMin(sat) ELSE 0

\* (variant: the other dimensions are not rescaled with the binding one)
ScaleOnes(osc, u_task, index) == Tup([i \in 1..Len(u_task) |-> One])

\* the scale vector of the velocity limiting
Scale(osc, u_task, index) ==
    IF index # 0
    THEN LET unclipped == RMul(osc.kp, u_task[index])
             clipped   == RMul(RMul(osc.kv, osc.vmax.val), RSign(u_task[index]))
         IN  Tup([i \in 1..Len(u_task) |->
                IF i = index THEN One ELSE RDiv(RMul(One, clipped), unclipped)])
    ELSE Tup([i \in 1..Len(u_task) |-> One])

\* (variant: sat / scale is not clipped)
CommandedNoClip(osc, u_task, sat, scale) ==
    Tup([i \in 1..Len(u_task) |->
        RMul(RMul(RMul(RDiv(sat[i], scale[i]), RNeg(osc.lamb)), scale[i]), u_task[i])])

\* clip(sat / scale, 0, 1) * -lamb * scale * u_task
Commanded(osc, u_task, sat, scale) ==
    Tup([i \in 1..Len(u_task) |->
        RMul(RMul(RMul(RClip(RDiv(sat[i], scale[i]), Zero, One), RNeg(osc.lamb)),
                  scale[i]), u_task[i])])

\* the low level signal u: the Python float 0.0 or an N-vector
ScalarZero   == [scalar |-> TRUE, vec |-> <<>>]
VectorU(v)   == [scalar |-> FALSE, vec |-> v]
\* u += v with numpy broadcasting
AddTo(u, v)  == IF u.scalar THEN v ELSE VAdd(u.vec, v)

\* target_vel[self.ctrlr_dof]
MaskedVel(target_vel, mask) == Masked(target_vel, mask)

\* velocity limiting (vmax is not None)
VelocityLimited(osc, u_task, J, dq, target_vel) ==
    LET sat   == Saturation(osc, u_task)
        index == Binding(sat)
        scale == Scale(osc, u_task, index)
        dx    == MatVec(J, dq)
        cmd   == Commanded(osc, u_task, sat, scale)
    IN  IF Len(target_vel) # 6
        THEN [status |-> "IndexError", u_task |-> u_task, u |-> ScalarZero,
              sat |-> sat, scale |-> scale, index |-> index, cmd |-> <<>>,
              joint_damping |-> FALSE]
        ELSE [status |-> "ok",
              u_task |-> VScale(RNeg(osc.kv),
                           VSub(VSub(dx, MaskedVel(target_vel, osc.ctrlr_dof)), cmd)),
              u |-> ScalarZero,
              sat |-> sat, scale |-> scale, index |-> index, cmd |-> cmd,
              joint_damping |-> FALSE]

\* np.all(target_vel == 0)
AllZero(v) == \A i \in 1..Len(v) : v[i] = Zero

\* (variant: the velocity compensation is always applied in task space)
UnlimitedTaskDamping(osc, u_task, J, M, dq, target_vel) ==
    [status |-> "ok",
     u_task |-> VSub(VScale(RNeg(osc.kp), u_task), VScale(osc.kv,
                  VSub(MatVec(J, dq), MaskedVel(target_vel, osc.ctrlr_dof)))),
     u |-> ScalarZero,
     sat |-> <<>>, scale |-> <<>>, index |-> 0, cmd |-> <<>>,
     joint_damping |-> FALSE]

\* no velocity limiting (vmax is None)
Unlimited(osc, u_task, J, M, dq, target_vel) ==
    LET u_kp == VScale(RNeg(osc.kp), u_task)
    IN  IF AllZero(target_vel)
        THEN [status |-> "ok", u_task |-> u_kp,
              u |-> VectorU(VScale(RNeg(osc.kv), MatVec(M, dq))),
              sat |-> <<>>, scale |-> <<>>, index |-> 0, cmd |-> <<>>,
              joint_damping |-> TRUE]
        ELSE IF Len(target_vel) # 6
        THEN [status |-> "IndexError", u_task |-> u_kp, u |-> ScalarZero,
              sat |-> <<>>, scale |-> <<>>, index |-> 0, cmd |-> <<>>,
              joint_damping |-> FALSE]
        ELSE [status |-> "ok",
              u_task |-> VSub(u_kp, VScale(osc.kv,
                           VSub(MatVec(J, dq), MaskedVel(target_vel, osc.ctrlr_dof)))),
              u |-> ScalarZero,
              sat |-> <<>>, scale |-> <<>>, index |-> 0, cmd |-> <<>>,
              joint_damping |-> FALSE]

ControlLaw(osc, u_task, J, M, dq, target_vel) ==
    IF osc.vmax.given
    THEN VelocityLimited(osc, u_task, J, dq, target_vel)
    ELSE Unlimited(osc, u_task, J, M, dq, target_vel)

\* the integrated error term: xyz is bound only when a position dimension
\* is controlled, and u_task -= ki * integrated_error broadcasts only when
\* u_task has three entries
IntegralTerm(osc, ie, u_task, target, xyz) ==
    IF osc.ki = Zero
    THEN [status |-> "ok", ie |-> ie, u_task |-> u_task]
    ELSE IF Count(SubSeq(osc.ctrlr_dof, 1, 3)) = 0
    THEN [status |-> "UnboundLocalError", ie |-> ie, u_task |-> u_task]
    ELSE LET ie1 == VAdd(ie, VSub(SubSeq(target, 1, 3), xyz))
         IN  IF Len(u_task) # 3
             THEN [status |-> "ValueError", ie |-> ie1, u_task |-> u_task]
             ELSE [status |-> "ok", ie |-> ie1,
                   u_task |-> VSub(u_task, VScale(osc.ki, ie1))]

\* null_filter = I - J.T . Jbar.T with Jbar = M_inv . J.T . Mx
NullFilter(J, M_inv, Mx, n, N) ==
    LET JT   == Transpose(J, N)
        Jbar == MatMul(M_inv, MatMul(JT, Mx, n), n)
    IN  MatSub(Eye(N), MatMul(JT, Transpose(Jbar, n), N))

\* a call of fn on robot_config (id 0) or on the secondary controller id
Call(fn, id, q, dq) == [fn |-> fn, id |-> id, q |-> q, dq |-> dq]

\* (variant: each filter is applied to the signal accumulated so far)
RECURSIVE NullSpaceNested(_, _, _, _, _, _, _, _, _)
NullSpaceNested(ctrls, s, J, M_inv, Mx, n, N, q, dq) ==
    IF ctrls = <<>> THEN s
    ELSE LET u_null == NullGenerate(Head(ctrls), N, q, dq)
             u1     == MatVec(NullFilter(J, M_inv, Mx, n, N), VAdd(s.u, u_null))
         IN  NullSpaceNested(Tail(ctrls),
                       [u |-> u1, calls |-> Append(s.calls, Call("null", Head(ctrls), q, dq))],
                       J, M_inv, Mx, n, N, q, dq)

\* the loop over the list ctrls of null controllers, entered with the signal
\* s.u and the calls s.calls made so far
RECURSIVE NullSpace(_, _, _, _, _, _, _, _, _)
NullSpace(ctrls, s, J, M_inv, Mx, n, N, q, dq) ==
    IF ctrls = <<>> THEN s
    ELSE LET u_null == NullGenerate(Head(ctrls), N, q, dq)
             u1     == VAdd(s.u, MatVec(NullFilter(J, M_inv, Mx, n, N), u_null))
         IN  NullSpace(Tail(ctrls),
                       [u |-> u1, calls |-> Append(s.calls, Call("null", Head(ctrls), q, dq))],
                       J, M_inv, Mx, n, N, q, dq)

NoSignal    == [set |-> FALSE, val |-> <<>>]
Signal(v)   == [set |-> TRUE, val |-> v]
\* (variant: self.training_signal = u, the array that is changed afterwards)
TrainingSignalAlias(u_now, u_end) == Signal(u_end)
\* self.training_signal = np.copy(u): the copy keeps the value u_now that u
\* has at this line, whatever u is changed to in place afterwards (u_end)
TrainingSignal(u_now, u_end) == Signal(u_now)

(***************************************************************************)
(* The controllers and the arguments the model draws.                      *)
(***************************************************************************)
PosOnly  == <<TRUE, TRUE, TRUE, FALSE, FALSE, FALSE>>
FullDof  == <<TRUE, TRUE, TRUE, TRUE, TRUE, TRUE>>
OriOnly  == <<FALSE, FALSE, FALSE, TRUE, TRUE, TRUE>>
MixedDof == <<TRUE, FALSE, FALSE, TRUE, TRUE, FALSE>>
SingleDof == <<TRUE, FALSE, FALSE, FALSE, FALSE, FALSE>>
NoDof    == <<FALSE, FALSE, FALSE, FALSE, FALSE, FALSE>>
DofArgs  == {NoList, GivenList(FullDof), GivenList(OriOnly), GivenList(MixedDof),
             GivenList(SingleDof), GivenList(NoDof)}

KiArgs   == {Zero, One}
VmaxArgs == {NoValue, Given(R(3))}
\* (null_controllers, use_g, use_C)
TailArgs == { <<NoList, TRUE, FALSE>>,
              <<GivenList(<<>>), FALSE, FALSE>>,
              <<GivenList(<<1, 2>>), FALSE, TRUE>>,
              <<GivenList(<<2, 1>>), TRUE, TRUE>> }

Controllers ==
    { OSCInit(N, R(2), Given(R(4)), Given(One), ki, vmax, dof, tail[1], tail[2], tail[3]) :
        N \in 1..MaxJoints, ki \in KiArgs, vmax \in VmaxArgs,
        dof \in DofArgs, tail \in TailArgs }

\* joint angles q and velocities dq, every joint at the same value
Uniform(N, v)  == Tup([k \in 1..N |-> v])
JointStates(N) == { <<Uniform(N, 0), Uniform(N, 0)>>, <<Uniform(N, 0), Uniform(N, 1)>>,
                    <<Uniform(N, 1), Uniform(N, 1)>> }

Origin   == ZeroVec(6)
Away     == VecOf(<<MaxPos, 0, 0, 1, 0, 0>>)
XVel     == VecOf(<<1, 0, 0, 0, 0, 0>>)
GammaVel == VecOf(<<0, 0, 0, 0, 0, 1>>)

\* targets: the orientation is varied where the controller reads it
Targets(c) ==
    { VecOf(<<a, b, 0, 0, 0, 0>>) : a \in {0, 1, MaxPos}, b \in {0, MaxPos} }
    \cup { VecOf(<<a, 0, 0, t, 0, 0>>) :
              a \in {0, MaxPos},
              t \in IF Count(SubSeq(c.ctrlr_dof, 4, 6)) > 0 THEN 1..2 ELSE {} }

TargetVels == {NoList, GivenList(XVel), GivenList(GammaVel)}

Args(q, dq, target, target_vel) ==
    [q |-> q, dq |-> dq, target |-> target, target_vel |-> target_vel]

\* arguments whose target or target_vel has not 6 entries
BadArgs(c) ==
    { Args(Uniform(c.N_JOINTS, 0), Uniform(c.N_JOINTS, 0), l[1], l[2]) :
        l \in { <<ZeroVec(5), NoList>>, <<Away, GivenList(ZeroVec(7))>>,
                <<ZeroVec(7), GivenList(XVel)>> } }

\* the arguments of a single call
CallArgs(c) ==
    { Args(j[1], j[2], target, target_vel) :
        j \in JointStates(c.N_JOINTS), target \in Targets(c), target_vel \in TargetVels }
    \cup BadArgs(c)

\* the arguments of the calls of a longer run (one rejected argument list
\* for each of the two asserts)
RunArgs(c) ==
    { Args(Uniform(c.N_JOINTS, 0), Uniform(c.N_JOINTS, 0), Away, NoList),
      Args(Uniform(c.N_JOINTS, 1), Uniform(c.N_JOINTS, 1), Origin, NoList),
      Args(Uniform(c.N_JOINTS, 0), Uniform(c.N_JOINTS, 1), Away, GivenList(XVel)) }
    \cup { a \in BadArgs(c) : Len(a.target) <= 6 }

\* the sign quaternion_from_matrix may give a quaternion whose w is 0
Signs(c, q) ==
    IF Count(SubSeq(c.ctrlr_dof, 4, 6)) > 0
       /\ QuaternionFromMatrix(RobotR(c.N_JOINTS, q), 1)[1] = Zero
    THEN {1, -1} ELSE {1}

(***************************************************************************)
(* The state machine: osc holds the attributes __init__ sets and generate  *)
(* leaves alone; last is the record of the latest generate call; error_sum *)
(* is the sum of target[:3] - xyz over the calls whose arguments passed    *)
(* the asserts.                                                            *)
(***************************************************************************)
VARIABLES osc, integrated_error, training_signal, last, ncalls, error_sum

vars == <<osc, integrated_error, training_signal, last, ncalls, error_sum>>

\* the record of a call that raised an exception before any robot_config call
Raised(status) ==
    [status |-> status, torque |-> <<>>, calls |-> <<>>,
     u_err |-> <<>>, u_law |-> <<>>, u_int |-> <<>>,
     base |-> ScalarZero, sat |-> <<>>, scale |-> <<>>, index |-> 0, cmd |-> <<>>,
     joint_damping |-> FALSE, u_g |-> <<>>, null_filter |-> <<>>]

NoCall ==
    [res |-> Raised("none"), args |-> Args(<<>>, <<>>, <<>>, NoList),
     ie_before |-> ZerosThree, ts_before |-> NoSignal]

Init ==
    /\ osc \in Controllers
    /\ integrated_error = ZerosThree
    /\ training_signal = NoSignal
    /\ last = NoCall
    /\ ncalls = 0
    /\ error_sum = ZerosThree

\* the robot_config calls up to the control law, and the later ones
CallsBefore(c, q) ==
    <<Call("J", 0, q, <<>>), Call("M", 0, q, <<>>)>>
    \o (IF Count(SubSeq(c.ctrlr_dof, 1, 3)) > 0 THEN <<Call("Tx", 0, q, <<>>)>> ELSE <<>>)
    \o (IF Count(SubSeq(c.ctrlr_dof, 4, 6)) > 0 THEN <<Call("R", 0, q, <<>>)>> ELSE <<>>)
CallsAfter(c, q, dq) ==
    (IF c.use_C THEN <<Call("C", 0, q, dq)>> ELSE <<>>)
    \o (IF c.use_g THEN <<Call("g", 0, q, <<>>)>> ELSE <<>>)

\* the call ends (returns or raises) with the record res, the integrated
\* error ie and the training signal ts
Finish(a, res, ie, ts) ==
    /\ integrated_error' = ie
    /\ training_signal' = ts
    /\ last' = [res |-> res, args |-> a,
                ie_before |-> integrated_error, ts_before |-> training_signal]
    /\ error_sum' =
         IF res.status = "AssertionError" THEN error_sum
         ELSE VAdd(error_sum, VSub(SubSeq(a.target, 1, 3), RobotTx(osc.N_JOINTS, a.q)))
    /\ ncalls' = ncalls + 1
    /\ UNCHANGED osc

\* osc.generate(a.q, a.dq, a.target, a.target_vel)
GenerateStep(a) ==
    IF InputCheck(a.target, a.target_vel) # "ok"
    THEN Finish(a, Raised(InputCheck(a.target, a.target_vel)),
                integrated_error, training_signal)
    ELSE
    \E sgn \in Signs(osc, a.q) :
    \E N \in {osc.N_JOINTS} :
    \E n \in {osc.n_ctrlr_dof} :
    \E target_vel \in {IF a.target_vel.given THEN a.target_vel.val ELSE ZerosSix} :
    \E J \in {Masked(RobotJ(N, a.q), osc.ctrlr_dof)} :
    \E M \in {RobotM(N, a.q)} :
    \E M_inv \in {LinalgInv(M)} :
    \E Mx \in {TaskInertia(J, M_inv, n, N)} :
    \E xyz \in {RobotTx(N, a.q)} :
    \E u_err \in {Masked(TaskError(osc, xyz, a.target, RobotR(N, a.q), sgn),
                         osc.ctrlr_dof)} :
    \E law \in {ControlLaw(osc, u_err, J, M, VecOf(a.dq), target_vel)} :
    \E before \in {[Raised(law.status) EXCEPT
                      !.calls = CallsBefore(osc, a.q), !.u_err = u_err,
                      !.sat = law.sat, !.scale = law.scale, !.cmd = law.cmd,
                      !.index = law.index,
                      !.u_law = law.u_task, !.base = law.u,
                      !.joint_damping = law.joint_damping]} :
    IF law.status # "ok"
    THEN Finish(a, before, integrated_error, training_signal)
    ELSE
    \E int \in {IntegralTerm(osc, integrated_error, law.u_task, a.target, xyz)} :
    IF int.status # "ok"
    THEN Finish(a, [before EXCEPT !.status = int.status], int.ie, training_signal)
    ELSE
    \E u_map \in {AddTo(law.u, MatVec(Transpose(J, N), MatVec(Mx, int.u_task)))} :
    \E u_C \in {IF osc.use_C
                THEN VSub(u_map, MatVec(RobotC(N, a.q, a.dq), VecOf(a.dq)))
                ELSE u_map} :
    \E u_g \in {IF osc.use_g THEN VSub(u_C, RobotG(N, a.q)) ELSE u_C} :
    \E end \in {NullSpace(IF osc.null_controllers.given
                          THEN osc.null_controllers.val ELSE <<>>,
                          [u |-> u_g,
                           calls |-> CallsBefore(osc, a.q) \o CallsAfter(osc, a.q, a.dq)],
                          J, M_inv, Mx, n, N, a.q, a.dq)} :
        Finish(a, [before EXCEPT
                     !.torque = end.u, !.u_int = int.u_task, !.u_g = u_g,
                     !.calls = end.calls,
                     !.null_filter = IF end.calls = CallsBefore(osc, a.q)
                                                     \o CallsAfter(osc, a.q, a.dq)
                                     THEN <<>>
                                     ELSE NullFilter(J, M_inv, Mx, n, N)],
               int.ie, TrainingSignal(u_C, end.u))

\* a call in a run of up to MaxCalls calls
GenerateCall ==
    /\ ncalls < MaxCalls
    /\ \E a \in RunArgs(osc) : GenerateStep(a)

\* the first call on a new controller
FirstCall ==
    /\ ncalls = 0
    /\ \E a \in CallArgs(osc) : GenerateStep(a)

Next == GenerateCall

Spec == Init /\ [][Next]_vars

NextCall == FirstCall

SpecCall == Init /\ [][NextCall]_vars

(***************************************************************************)
(* Properties.                                                             *)
(***************************************************************************)
Res  == last.res
Arg  == last.args
Called == Res.status # "none"
\* the latest call's target and target_vel (if given) have 6 entries
ValidArgs ==
    /\ Called
    /\ Len(Arg.target) = 6
    /\ Arg.target_vel.given => Len(Arg.target_vel.val) = 6
\* the latest call got past the control law
LawDone == Res.status \in {"ok", "UnboundLocalError", "ValueError"}
ArgVel == IF Arg.target_vel.given THEN Arg.target_vel.val ELSE ZerosSix
ArgJ   == Masked(RobotJ(osc.N_JOINTS, Arg.q), osc.ctrlr_dof)
Active == ActiveIdx(osc.ctrlr_dof)
Secondary == IF osc.null_controllers.given THEN osc.null_controllers.val ELSE <<>>

\* C1: a call whose target, or given target_vel, has not 6 entries raises
\* the assertion error before any robot_config or null controller call, and
\* leaves integrated_error and training_signal as they were.
C1_InvalidInputRejected ==
    (Called /\ ~ValidArgs) =>
        /\ Res.status = "AssertionError"
        /\ Res.calls = <<>>
        /\ integrated_error = last.ie_before
        /\ training_signal = last.ts_before
C1_Witness ==
    /\ Called /\ ~ValidArgs
    /\ Len(Arg.target) = 6
    /\ integrated_error # ZerosThree
    /\ training_signal.set

\* C2: every call with arguments of the right length returns a torque
\* vector of N_JOINTS entries (the claim as stated; it fails for ki # 0).
C2_ReturnsTorqueOfLengthN ==
    ValidArgs => Res.status = "ok" /\ Len(Res.torque) = osc.N_JOINTS

\* C3: integrated_error is the sum of target[:3] - xyz over the calls made
\* when ki # 0, and zero when ki = 0 (the claim as stated).
C3_IntegralIsErrorSum ==
    integrated_error = IF osc.ki # Zero THEN error_sum ELSE ZerosThree

\* the target is the current end-effector pose (angles up to whole turns)
AtTarget ==
    /\ SubSeq(Arg.target, 1, 3) = RobotTx(osc.N_JOINTS, Arg.q)
    /\ \A d \in 1..3 : (Arg.target[d + 3].n - Turns(osc.N_JOINTS, Arg.q, d)) % 2 = 0
C4Case ==
    /\ ValidArgs /\ LawDone
    /\ osc.ctrlr_dof \in {PosOnly, FullDof}
    /\ AtTarget
    /\ AllZero(ArgVel)
\* C4 as stated: at the target with zero target velocity the control law
\* gives u_task = 0, for every dq and with or without vmax.
C4_ZeroTaskForceAtTarget ==
    C4Case => Res.u_law = ZeroVec(osc.n_ctrlr_dof)
\* C4 as amended: at the target with zero target velocity the control law
\* gives u_task = 0 when vmax is unset and u_task = -kv * (J . dq) when vmax
\* is set.
C4_TaskForceAtTarget ==
    C4Case =>
        Res.u_law = IF osc.vmax.given
                    THEN VScale(RNeg(osc.kv), MatVec(ArgJ, VecOf(Arg.dq)))
                    ELSE ZeroVec(osc.n_ctrlr_dof)
C4_Witness ==
    /\ C4Case
    /\ osc.ctrlr_dof = FullDof
    /\ osc.vmax.given
    /\ Arg.target[4] = R(2)
    /\ Res.u_law # ZeroVec(osc.n_ctrlr_dof)

VelocityLimitedCall == ValidArgs /\ LawDone /\ osc.vmax.given
\* C5: with vmax set every commanded velocity term is at most vmax in
\* magnitude; when some dimension saturates, a dimension of least sat has
\* scale 1 and commanded magnitude exactly vmax, and every dimension is
\* scaled by the same factor (the commanded vector is parallel to the error).
C5_VelocityLimit ==
    VelocityLimitedCall =>
        LET u == Res.u_err
            cmd == Res.cmd
            dims == 1..Len(Res.cmd)
        IN  /\ \A i \in dims : RLe(RAbs(cmd[i]), osc.vmax.val)
            /\ (\E i \in dims : RLt(Res.sat[i], One)) =>
                 \E b \in dims :
                    /\ \A j \in dims : RLe(Res.sat[b], Res.sat[j])
                    /\ Res.scale[b] = One
                    /\ RAbs(cmd[b]) = osc.vmax.val
                    /\ \A j \in dims : RMul(cmd[j], u[b]) = RMul(cmd[b], u[j])
C5_Witness ==
    /\ VelocityLimitedCall
    /\ \E b, j \in 1..Len(Res.cmd) :
          /\ RLt(Res.sat[b], One)
          /\ Res.u_err[j] # Zero
          /\ RLt(RAbs(Res.u_err[j]), RAbs(Res.u_err[b]))

\* the projected secondary torques, summed in the order of the list
RECURSIVE ProjectedSum(_)
ProjectedSum(ctrls) ==
    IF ctrls = <<>> THEN ZeroVec(osc.N_JOINTS)
    ELSE VAdd(MatVec(Res.null_filter,
                     NullGenerate(Head(ctrls), osc.N_JOINTS, Arg.q, Arg.dq)),
              ProjectedSum(Tail(ctrls)))
\* C6: after a call that returns, training_signal is the torque before the
\* gravity and null-space terms: torque - training_signal is -g(q) (under
\* use_g) plus the projected secondary torques, and the gravity step has
\* not changed the stored signal.
C6_TrainingSignal ==
    Res.status = "ok" =>
        /\ training_signal.set
        /\ VSub(Res.torque, training_signal.val) =
             VAdd(IF osc.use_g THEN VScale(R(-1), RobotG(osc.N_JOINTS, Arg.q))
                  ELSE ZeroVec(osc.N_JOINTS),
                  ProjectedSum(Secondary))
        /\ training_signal.val =
             IF osc.use_g THEN VAdd(Res.u_g, RobotG(osc.N_JOINTS, Arg.q)) ELSE Res.u_g
C6_Witness ==
    /\ Res.status = "ok"
    /\ ncalls > 1
    /\ osc.use_g
    /\ Secondary # <<>>
    /\ Res.torque # training_signal.val
    /\ integrated_error # ZerosThree

\* C7: with ki # 0 the integral term is subtracted from the position
\* components of u_task only, each axis from its own component, for every
\* mask (the claim as stated).
C7_IntegralOnPositionOnly ==
    (ValidArgs /\ osc.ki # Zero) =>
        /\ Res.status = "ok"
        /\ \A k \in 1..Len(Res.u_int) :
              Res.u_int[k] =
                IF Active[k] <= 3
                THEN RSub(Res.u_law[k], RMul(osc.ki, integrated_error[Active[k]]))
                ELSE Res.u_law[k]

\* C8: without vmax the damping form is chosen by the active entries of
\* target_vel only (the claim as stated).
C8_DampingByActiveDims ==
    (ValidArgs /\ LawDone /\ ~osc.vmax.given) =>
        LET kpu == VScale(RNeg(osc.kp), Res.u_err)
            dq  == VecOf(Arg.dq)
        IN  IF \A k \in 1..Len(Active) : ArgVel[Active[k]] = Zero
            THEN /\ Res.base = VectorU(VScale(RNeg(osc.kv),
                                  MatVec(RobotM(osc.N_JOINTS, Arg.q), dq)))
                 /\ Res.u_law = kpu
            ELSE /\ Res.base = ScalarZero
                 /\ Res.u_law = VSub(kpu, VScale(osc.kv,
                                  VSub(MatVec(ArgJ, dq), Masked(ArgVel, osc.ctrlr_dof))))

\* C9: under velocity limiting a dimension whose error is exactly 0 has
\* sat = +inf, is never the binding dimension and commands exactly 0; an
\* all-zero error saturates nothing (scale is 1 everywhere); and u_task has
\* no NaN or infinite entry.
C9_ZeroErrorNotBinding ==
    VelocityLimitedCall =>
        LET dims == 1..Len(Res.u_err)
        IN  /\ \A i \in dims :
                 Res.u_err[i] = Zero =>
                    /\ Res.sat[i] = PosInf
                    /\ Res.index # i
                    /\ Res.cmd[i] = Zero
            /\ (\A i \in dims : Res.u_err[i] = Zero) =>
                    /\ Res.index = 0
                    /\ \A i \in dims : Res.scale[i] = One
            /\ \A i \in dims : IsFinite(Res.u_law[i])
C9_Witness ==
    /\ VelocityLimitedCall
    /\ \E i, j \in 1..Len(Res.u_err) :
          /\ Res.u_err[i] = Zero
          /\ Res.index = j
          /\ Res.scale[i] # One

\* the sum of the outputs of the secondary controllers in the set ids
RECURSIVE NullSum(_)
NullSum(ids) ==
    IF ids = {} THEN ZeroVec(osc.N_JOINTS)
    ELSE LET c == CHOOSE x \in ids : TRUE
         IN  VAdd(NullGenerate(c, osc.N_JOINTS, Arg.q, Arg.dq), NullSum(ids \ {c}))
NullCallsOf(c) ==
    {k \in 1..Len(Res.calls) : Res.calls[k].fn = "null" /\ Res.calls[k].id = c}
\* C10: every secondary controller is called exactly once, with the q and
\* dq of the call; the torque added by the loop is the one null-space
\* filter applied to the sum of their outputs, whatever their order; an
\* empty or absent list adds nothing.
C10_NullSpaceSum ==
    Res.status = "ok" =>
        LET ids == {Secondary[i] : i \in 1..Len(Secondary)}
            N   == osc.N_JOINTS
            n   == osc.n_ctrlr_dof
            M_inv == LinalgInv(RobotM(N, Arg.q))
            Mx  == TaskInertia(ArgJ, M_inv, n, N)
        IN  /\ \A c \in ids : Cardinality(NullCallsOf(c)) = 1
            /\ \A k \in 1..Len(Res.calls) :
                 Res.calls[k].fn = "null" =>
                    /\ Res.calls[k].id \in ids
                    /\ Res.calls[k].q = Arg.q
                    /\ Res.calls[k].dq = Arg.dq
            /\ Secondary # <<>> =>
                 /\ Res.null_filter =
                      MatSub(Eye(N), MatMul(MatMul(MatMul(Transpose(ArgJ, N), Mx, n),
                                                   ArgJ, N), M_inv, N))
                 /\ VSub(Res.torque, Res.u_g) = MatVec(Res.null_filter, NullSum(ids))
            /\ Secondary = <<>> => Res.torque = Res.u_g
C10_Witness ==
    /\ Res.status = "ok"
    /\ Secondary = <<2, 1>>
    /\ Res.null_filter # Eye(osc.N_JOINTS)
    /\ Res.torque # Res.u_g

====
